---- MODULE Spec2Model ----
(***************************************************************************)
(* The asynchronous task-completion client of pulp-smash:                  *)
(* pulp_smash/helper.py, wait_for_tasks and _wait_for_task, together with  *)
(* the caller in tests/platform/api_v2/test_rpm_repo.py that issues a      *)
(* dependent request once the wait has returned.                           *)
(*                                                                         *)
(* The client is one sequential process; pc is its position in the code.   *)
(* The server is the environment: it moves the spawned tasks through their *)
(* states at any moment, and answers each status query with a snapshot.    *)
(*                                                                         *)
(* Beside it stand two smaller machines, each under a specification of its *)
(* own: the Repository class of resources/platform/api_v2/api.py, and the  *)
(* set-up and tear-down of the test case classes of                        *)
(* tests/ostree/api_v2/test_sync_publish.py.                               *)
(***************************************************************************)
EXTENDS Integers, Sequences, FiniteSets, TLC

(* ------------------------------ bounds --------------------------------- *)

\* Largest number of calls of wait_for_tasks on one report.
MaxCalls == 2

\* Largest number of method calls on one Repository object.
MaxRepoCalls == 3

\* The number of _href values the server gives to new repositories.
MaxHrefs == 4

\* The timeout of the scenario of three answers, in polling intervals.
ScenarioFactor == 8

\* Largest number of spawned tasks in a call report (and of task ids).
MaxTasks == 2
\* Largest timeout argument, in clock ticks.
MaxTimeout == 2
\* Largest frequency argument (the polling interval), in clock ticks.
MaxFrequency == 2

(* ----------------------------- constants ------------------------------- *)

CALL_REPORT_KEYS == {"error", "result", "spawned_tasks"}

TASK_ERROR_STATES == {"error", "timed out"}

TASK_SUCCESS_STATES == {"finished"}

TASK_RUNNING_STATES == {"running", "suspended", "waiting"}

\* resources/helper.py:32-45  the tables as one dictionary.
task_states ==
    [TASK_ERROR_STATES |-> TASK_ERROR_STATES,
     TASK_SUCCESS_STATES |-> TASK_SUCCESS_STATES,
     TASK_RUNNING_STATES |-> TASK_RUNNING_STATES]

\* api.py:36-47  the module-level copy of the tables.
api_task_states ==
    [TASK_ERROR_STATES |-> {"error", "timed out"},
     TASK_SUCCESS_STATES |-> {"finished"},
     TASK_RUNNING_STATES |-> {"running", "suspended", "waiting"}]

\* helper.py:10-12  the tables that helper.py imports from
\* pulp_smash.constants.
constants_task_states ==
    [TASK_ERROR_STATES |-> {"error", "timed out"},
     TASK_SUCCESS_STATES |-> {"finished"},
     TASK_RUNNING_STATES |-> {"running", "suspended", "waiting"}]

\* Every copy of the tables.
StateTables == {task_states, api_task_states, constants_task_states}

\* A state the server can report that none of the client's tables holds.
UnknownStates == {"canceled"}

States ==
    TASK_RUNNING_STATES \cup TASK_SUCCESS_STATES \cup TASK_ERROR_STATES
        \cup UnknownStates

TaskIds == 1..MaxTasks

\* The time one status query takes on the network of a run, in clock
\* ticks: less than a tick, or a tick.
Latencies == {0, 1}

(* ------------------------------- values -------------------------------- *)

\* Python's None: the value of a function that falls off its end, and of a
\* local variable that holds nothing.
None == [task_id |-> 0, ok |-> FALSE, state |-> "None"]

\* A requests.Response to GET <base_url>/pulp/api/v2/tasks/<task_id>/ :
\* ok is whether the HTTP status is a success one, state is json()['state'].
Response(task_id, ok, state) == [task_id |-> task_id, ok |-> ok, state |-> state]

\* The spawned_tasks lists: n distinct task ids, n at most MaxTasks. The ids
\* are opaque, so the n ids are taken to be 1..n, in ascending and in
\* descending order.
TaskSeqs ==
    UNION {{[i \in 1..n |-> i], [i \in 1..n |-> n + 1 - i]} : n \in 0..MaxTasks}

\* The key sets of the call reports a wait is started on: the well-formed
\* one, one with a key too many, and those without 'error' and without
\* 'spawned_tasks'.
ReportKeySets ==
    {CALL_REPORT_KEYS, CALL_REPORT_KEYS \cup {"_href"},
     CALL_REPORT_KEYS \ {"error"}, CALL_REPORT_KEYS \ {"spawned_tasks"}}

\* report.json() of the call reports: its keys, and the value under
\* 'spawned_tasks' (each element a dictionary holding a task_id).
Reports ==
    {[keys |-> k,
      spawned_tasks |-> IF "spawned_tasks" \in k THEN s ELSE << >>] :
        k \in ReportKeySets, s \in TaskSeqs}

(* ------------------------------- state --------------------------------- *)

VARIABLES
    report,        \* report.json(), the argument of wait_for_tasks
    timeout,       \* the timeout argument
    frequency,     \* the frequency argument
    latency,       \* the time a status query takes
    srv,           \* server side: the state of every task
    clock,         \* time.time()
    pc,            \* the client's position
    exc,           \* the exception that left wait_for_tasks, or "none"
    idx,           \* position of the for loop in spawned_tasks
    task_timeout,  \* _wait_for_task's deadline
    response,      \* _wait_for_task's local variable
    responses,     \* wait_for_tasks' list of results
    log,           \* the sleeps and requests the client has made, in order
    calls,         \* the number of calls of wait_for_tasks so far
    data_keys,     \* Repository: self.data_keys
    last_response, \* Repository: self.last_response
    sent,          \* Repository: the requests made through the object
    history,       \* Repository: the method calls made, and how each ended
    tclass,        \* test case: the class that is set up and torn down
    tpc,           \* test case: the position in setUpClass / tearDownClass
    attrs_iter,    \* test case: cls.attrs_iter
    pos,           \* test case: the position of the running for loop
    created,       \* test case: the _href of the repositories created
    deleted,       \* test case: the _href a delete was issued for
    resources      \* test case: cls.resources

\* The variables of the wait for tasks.
wait_vars ==
    <<report, timeout, frequency, latency, srv, clock, pc, exc, idx, task_timeout,
      response, responses, log, calls>>

\* The variables of a Repository object and of its server.
repo_vars == <<data_keys, last_response, sent, history>>

\* The variables of a test case class of test_sync_publish.py.
test_vars == <<tclass, tpc, attrs_iter, pos, created, deleted, resources>>

vars == <<wait_vars, repo_vars, test_vars>>

inputs == <<report, timeout, frequency, latency>>

Sleep(seconds) == [op |-> "sleep", arg |-> seconds]

Get(task_id) == [op |-> "GET", arg |-> task_id]

Post(what) == [op |-> "POST", arg |-> what]

\* The number of entries of l equal to e.
RECURSIVE Count(_, _)
Count(l, e) ==
    IF l = << >> THEN 0
    ELSE (IF Head(l) = e THEN 1 ELSE 0) + Count(Tail(l), e)

\* The number of entries of l whose operation is op.
RECURSIVE CountOp(_, _)
CountOp(l, op) ==
    IF l = << >> THEN 0
    ELSE (IF Head(l).op = op THEN 1 ELSE 0) + CountOp(Tail(l), op)

\* No Repository object takes part in the run.
NoRepository ==
    /\ data_keys = << >>
    /\ last_response = << >>
    /\ sent = << >>
    /\ history = << >>

\* No test case class takes part in the run.
NoTestCase ==
    /\ tclass = "none"
    /\ tpc = "none"
    /\ attrs_iter = << >>
    /\ pos = 0
    /\ created = << >>
    /\ deleted = << >>
    /\ resources = {}

\* No wait for tasks takes part in the run.
NoWait ==
    /\ report = [keys |-> CALL_REPORT_KEYS, spawned_tasks |-> << >>]
    /\ timeout = 0
    /\ frequency = 1
    /\ latency = 0
    /\ srv = [t \in TaskIds |-> "waiting"]
    /\ clock = 0
    /\ pc = "none"
    /\ exc = "none"
    /\ idx = 1
    /\ task_timeout = 0
    /\ response = None
    /\ responses = << >>
    /\ log = << >>
    /\ calls = 0

(* ------------------------------ helpers -------------------------------- *)

\* Mutant of Deadline: the deadline is counted from the start of
\* wait_for_tasks (clock 0), not from the start of the task's own polling.
Deadline_FromCallStart(now, t) == 0 + t

\* helper.py:32  task_timeout = time.time() + timeout
Deadline(now, t) == now + t

\* Mutant of MayPoll: the loop is left when the deadline is reached.
MayPoll_Strict(now, deadline) == now < deadline

\* helper.py:33  while time.time() <= task_timeout
MayPoll(now, deadline) == now <= deadline

\* Mutant of IsFinished: the error states are left out of the test.
IsFinished_SuccessOnly(state) == state \in TASK_SUCCESS_STATES

\* Mutant of IsFinished: the success states are left out of the test.
IsFinished_ErrorOnly(state) == state \in TASK_ERROR_STATES

\* Mutant of IsFinished: the first answer is returned, whatever its state.
IsFinished_Always(state) == TRUE

\* helper.py:43  state in TASK_ERROR_STATES | TASK_SUCCESS_STATES
IsFinished(state) == state \in TASK_ERROR_STATES \cup TASK_SUCCESS_STATES

\* helper.py:57  report.json()["spawned_tasks"] raises KeyError without the key
HasSpawnedTasks(r) == "spawned_tasks" \in r.keys

\* Mutant of CurrentTask: the list is walked from its end.
CurrentTask_Reversed(tasks, i) == tasks[Len(tasks) + 1 - i]

\* helper.py:57  for task in report.json()["spawned_tasks"]: the task of
\* the i-th iteration.
CurrentTask(tasks, i) == tasks[i]

\* Mutant of Collect: the result is put at the front of the list.
Collect_Prepend(rs, r) == <<r>> \o rs

\* helper.py:58  responses.append(<what _wait_for_task returned>)
Collect(rs, r) == Append(rs, r)

(* ------------------------------- server -------------------------------- *)

\* The states a task can move to in one step; a state outside the running
\* ones is final.
NextStates(s) ==
    CASE s = "waiting" -> {"running", "canceled"}
      [] s = "running" ->
            {"suspended", "canceled"} \cup TASK_SUCCESS_STATES
                \cup TASK_ERROR_STATES
      [] s = "suspended" -> {"running", "canceled"}
      [] OTHER -> {}

Init ==
    /\ report \in Reports
    /\ timeout \in 0..MaxTimeout
    /\ frequency \in 1..MaxFrequency
    /\ latency \in Latencies
    /\ srv = [t \in TaskIds |-> "waiting"]
    /\ clock = 0
    /\ pc = "call"
    /\ exc = "none"
    /\ idx = 1
    /\ task_timeout = 0
    /\ response = None
    /\ responses = << >>
    /\ log = << >>
    /\ calls = 0
    /\ NoRepository
    /\ NoTestCase

\* The server moves one spawned task on.
ServerStep ==
    /\ \E i \in DOMAIN report.spawned_tasks :
         \E s \in NextStates(srv[report.spawned_tasks[i]]) :
            srv' = [srv EXCEPT ![report.spawned_tasks[i]] = s]
    /\ UNCHANGED <<repo_vars, test_vars>>
    /\ UNCHANGED <<inputs, calls, clock, pc, exc, idx, task_timeout, response,
                   responses, log>>

(* ------------------------------- client -------------------------------- *)

\* Mutant of WaitForTasksCall: the list of results is not started afresh,
\* it is the one the call before has filled.
WaitForTasksCall_KeepsResponses ==
    /\ pc = "call"
    /\ calls' = calls + 1
    /\ idx' = 1
    /\ IF HasSpawnedTasks(report)
         THEN pc' = "for" /\ exc' = exc
         ELSE pc' = "raised" /\ exc' = "KeyError"
    /\ UNCHANGED <<repo_vars, test_vars>>
    /\ UNCHANGED <<inputs, srv, clock, task_timeout, response, responses,
                   log>>

\* Mutant of WaitForTasksCall: one polling interval is slept before the
\* tasks are looked at.
WaitForTasksCall_SleepFirst ==
    /\ pc = "call"
    /\ responses' = << >>
    /\ calls' = calls + 1
    /\ idx' = 1
    /\ clock' = clock + frequency
    /\ log' = Append(log, Sleep(frequency))
    /\ IF HasSpawnedTasks(report)
         THEN pc' = "for" /\ exc' = exc
         ELSE pc' = "raised" /\ exc' = "KeyError"
    /\ UNCHANGED <<repo_vars, test_vars>>
    /\ UNCHANGED <<inputs, srv, task_timeout, response>>

\* helper.py:55-57  responses = [] and the evaluation of
\* report.json()["spawned_tasks"], which raises KeyError without the key.
WaitForTasksCall ==
    /\ pc = "call"
    /\ responses' = << >>
    /\ calls' = calls + 1
    /\ idx' = 1
    /\ IF HasSpawnedTasks(report)
         THEN pc' = "for" /\ exc' = exc
         ELSE pc' = "raised" /\ exc' = "KeyError"
    /\ UNCHANGED <<repo_vars, test_vars>>
    /\ UNCHANGED <<inputs, srv, clock, task_timeout, response, log>>

\* helper.py:57-58 and 32  the for loop takes the next task and calls
\* _wait_for_task, which computes its deadline.
CallWaitForTask ==
    /\ pc = "for"
    /\ idx <= Len(report.spawned_tasks)
    /\ task_timeout' = Deadline(clock, timeout)
    /\ pc' = "while"
    /\ UNCHANGED <<repo_vars, test_vars>>
    /\ UNCHANGED <<inputs, calls, srv, clock, exc, idx, response, responses, log>>

\* helper.py:59  the for loop is exhausted: return responses.
ReturnResponses ==
    /\ pc = "for"
    /\ idx > Len(report.spawned_tasks)
    /\ pc' = "returned"
    /\ UNCHANGED <<repo_vars, test_vars>>
    /\ UNCHANGED <<inputs, calls, srv, clock, exc, idx, task_timeout, response,
                   responses, log>>

\* helper.py:33  the loop condition holds: go on to the sleep.
WhileEnter ==
    /\ pc = "while"
    /\ MayPoll(clock, task_timeout)
    /\ pc' = "sleep"
    /\ UNCHANGED <<repo_vars, test_vars>>
    /\ UNCHANGED <<inputs, calls, srv, clock, exc, idx, task_timeout, response,
                   responses, log>>

\* helper.py:33, 45 and 58  the loop condition fails: _wait_for_task falls
\* off its end, so it returns None, which wait_for_tasks appends.
WhileExit ==
    /\ pc = "while"
    /\ ~MayPoll(clock, task_timeout)
    /\ responses' = Collect(responses, None)
    /\ response' = None
    /\ idx' = idx + 1
    /\ pc' = "for"
    /\ UNCHANGED <<repo_vars, test_vars>>
    /\ UNCHANGED <<inputs, calls, srv, clock, exc, task_timeout, log>>

\* Mutant of DoSleep: the sleep returns at once.
DoSleep_NoWait ==
    /\ pc = "sleep"
    /\ log' = Append(log, Sleep(frequency))
    /\ pc' = "get"
    /\ UNCHANGED <<repo_vars, test_vars>>
    /\ UNCHANGED <<inputs, calls, srv, clock, exc, idx, task_timeout, response,
                   responses>>

\* Mutant of DoSleep: the interval grows with every query already made for
\* the task (a linear backoff).
DoSleep_Backoff ==
    /\ pc = "sleep"
    /\ clock' = clock + frequency * (1 + Count(log, Get(report.spawned_tasks[idx])))
    /\ log' = Append(log, Sleep(frequency * (1 + Count(log, Get(report.spawned_tasks[idx])))))
    /\ pc' = "get"
    /\ UNCHANGED <<repo_vars, test_vars>>
    /\ UNCHANGED <<inputs, calls, srv, exc, idx, task_timeout, response, responses>>

\* helper.py:34  time.sleep(frequency)
DoSleep ==
    /\ pc = "sleep"
    /\ clock' = clock + frequency
    /\ log' = Append(log, Sleep(frequency))
    /\ pc' = "get"
    /\ UNCHANGED <<repo_vars, test_vars>>
    /\ UNCHANGED <<inputs, calls, srv, exc, idx, task_timeout, response, responses>>

\* Mutant of DoGet: the answer of the iteration before is kept when there
\* is one.
DoGet_Stale ==
    /\ pc = "get"
    /\ LET task_id == CurrentTask(report.spawned_tasks, idx) IN
         /\ IF response # None
              THEN response' = response
              ELSE \E ok \in BOOLEAN :
                     response' = Response(task_id, ok,
                                          IF ok THEN srv[task_id] ELSE "None")
         /\ log' = Append(log, Get(task_id))
    /\ clock' = clock + latency
    /\ pc' = "raise_for_status"
    /\ UNCHANGED <<repo_vars, test_vars>>
    /\ UNCHANGED <<inputs, calls, srv, exc, idx, task_timeout, responses>>

\* Mutant of DoGet: the request cancels the task it asks about.
DoGet_Cancels ==
    /\ pc = "get"
    /\ LET task_id == CurrentTask(report.spawned_tasks, idx) IN
         /\ \E ok \in BOOLEAN :
              response' = Response(task_id, ok,
                                   IF ok THEN srv[task_id] ELSE "None")
         /\ log' = Append(log, Get(task_id))
         /\ srv' = [srv EXCEPT ![task_id] = "canceled"]
    /\ clock' = clock + latency
    /\ pc' = "raise_for_status"
    /\ UNCHANGED <<repo_vars, test_vars>>
    /\ UNCHANGED <<inputs, calls, exc, idx, task_timeout, responses>>

\* helper.py:35-40  response = requests.get(<url of the task>): the server
\* answers with the task's state, or with a non-success status.
DoGet ==
    /\ pc = "get"
    /\ LET task_id == CurrentTask(report.spawned_tasks, idx) IN
         /\ \E ok \in BOOLEAN :
              response' = Response(task_id, ok,
                                   IF ok THEN srv[task_id] ELSE "None")
         /\ log' = Append(log, Get(task_id))
    /\ clock' = clock + latency
    /\ pc' = "raise_for_status"
    /\ UNCHANGED <<repo_vars, test_vars>>
    /\ UNCHANGED <<inputs, calls, srv, exc, idx, task_timeout, responses>>

\* Mutant of ReturnResponse: an answer that arrived after the deadline is
\* handed back as a timeout.
ReturnResponse_ChecksDeadline ==
    /\ pc = "check"
    /\ IsFinished(response.state)
    /\ responses' = Collect(responses,
                            IF clock <= task_timeout THEN response ELSE None)
    /\ response' = None
    /\ idx' = idx + 1
    /\ pc' = "for"
    /\ UNCHANGED <<repo_vars, test_vars>>
    /\ UNCHANGED <<inputs, calls, srv, clock, exc, task_timeout, log>>

\* Mutant of ReturnResponse: a task that ended in an error state raises.
ReturnResponse_RaiseOnError ==
    /\ pc = "check"
    /\ IsFinished(response.state)
    /\ IF response.state \in TASK_ERROR_STATES
         THEN /\ pc' = "raised"
              /\ exc' = "TaskError"
              /\ UNCHANGED <<response, responses, idx>>
         ELSE /\ responses' = Collect(responses, response)
              /\ response' = None
              /\ idx' = idx + 1
              /\ pc' = "for"
              /\ exc' = exc
    /\ UNCHANGED <<repo_vars, test_vars>>
    /\ UNCHANGED <<inputs, calls, srv, clock, task_timeout, log>>

\* Mutant of RaiseForStatus: the HTTP status is not looked at.
RaiseForStatus_Ignore ==
    /\ pc = "raise_for_status"
    /\ pc' = "check"
    /\ UNCHANGED <<repo_vars, test_vars>>
    /\ UNCHANGED <<inputs, calls, srv, clock, exc, idx, task_timeout, response,
                   responses, log>>

\* helper.py:41  response.raise_for_status()
RaiseForStatus ==
    /\ pc = "raise_for_status"
    /\ IF response.ok
         THEN pc' = "check" /\ exc' = exc
         ELSE pc' = "raised" /\ exc' = "HTTPError"
    /\ UNCHANGED <<repo_vars, test_vars>>
    /\ UNCHANGED <<inputs, calls, srv, clock, idx, task_timeout, response,
                   responses, log>>

\* helper.py:43-44 and 58  a finished task: return response, which
\* wait_for_tasks appends.
ReturnResponse ==
    /\ pc = "check"
    /\ IsFinished(response.state)
    /\ responses' = Collect(responses, response)
    /\ response' = None
    /\ idx' = idx + 1
    /\ pc' = "for"
    /\ UNCHANGED <<repo_vars, test_vars>>
    /\ UNCHANGED <<inputs, calls, srv, clock, exc, task_timeout, log>>

\* Mutant of KeepPolling: the loop stays at the test of the answer it has,
\* without another query.
KeepPolling_Spins ==
    /\ pc = "check"
    /\ ~IsFinished(response.state)
    /\ pc' = "check"
    /\ UNCHANGED <<repo_vars, test_vars>>
    /\ UNCHANGED <<inputs, calls, srv, clock, exc, idx, task_timeout, response,
                   responses, log>>

\* helper.py:43  any other state: back to the loop condition.
KeepPolling ==
    /\ pc = "check"
    /\ ~IsFinished(response.state)
    /\ pc' = "while"
    /\ UNCHANGED <<repo_vars, test_vars>>
    /\ UNCHANGED <<inputs, calls, srv, clock, exc, idx, task_timeout, response,
                   responses, log>>

\* test_rpm_repo.py:386-392  the caller ignores the value wait_for_tasks
\* returned and posts the request that depends on the tasks (the sync).
PostSync ==
    /\ pc = "returned"
    /\ log' = Append(log, Post("sync"))
    /\ pc' = "synced"
    /\ UNCHANGED <<repo_vars, test_vars>>
    /\ UNCHANGED <<inputs, calls, srv, clock, exc, idx, task_timeout, response,
                   responses>>

Next ==
    \/ ServerStep
    \/ WaitForTasksCall
    \/ CallWaitForTask
    \/ ReturnResponses
    \/ WhileEnter
    \/ WhileExit
    \/ DoSleep
    \/ DoGet
    \/ RaiseForStatus
    \/ ReturnResponse
    \/ KeepPolling
    \/ PostSync

Spec == Init /\ [][Next]_vars

(* ------------------- the wait on a well-formed report ----------------- *)

\* The call report holds exactly the keys of a call report.
InitWellFormed ==
    /\ Init
    /\ report.keys = CALL_REPORT_KEYS

\* The wait of Spec, started on a well-formed call report.
SpecWellFormed == InitWellFormed /\ [][Next]_vars

(* --------------------- the wait that keeps running -------------------- *)

\* The steps of the client in wait_for_tasks.
Client ==
    \/ WaitForTasksCall
    \/ CallWaitForTask
    \/ ReturnResponses
    \/ WhileEnter
    \/ WhileExit
    \/ DoSleep
    \/ DoGet
    \/ RaiseForStatus
    \/ ReturnResponse
    \/ KeepPolling

\* The client is a running sequential program: when it has a next step it
\* takes it, every sleep ends and every GET returns. Nothing is assumed of
\* the server.
SpecFair == InitWellFormed /\ [][Next]_vars /\ WF_vars(Client)

(* ------------------- api.py: the Task class's copy -------------------- *)

\* api.py:18 and 177  POLL_TASK_PATH.format(task["task_id"])
POLL_TASK_PATH(task_id) == <<"/pulp/api/v2/tasks/", task_id, "/">>

\* resources/helper.py:12  paths['TASK_PATH']
TASK_PATH == <<"/pulp/api/v2/tasks/">>

\* resources/helper.py:68-69 and helper.py:37
\* TASK_PATH + '{}/'.format(task["task_id"])
TaskUrl(task_id) == TASK_PATH \o <<task_id, "/">>

\* api.py:194-196  Task.wait_for_tasks: the for loop is exhausted and the
\* method ends there, without a return statement.
TaskWaitForTasksEnds ==
    /\ pc = "for"
    /\ idx > Len(report.spawned_tasks)
    /\ pc' = "ended"
    /\ UNCHANGED <<repo_vars, test_vars>>
    /\ UNCHANGED <<inputs, calls, srv, clock, exc, idx, task_timeout, response,
                   responses, log>>

\* api.py:166-196  Task._wait_for_task and Task.wait_for_tasks: statement
\* for statement those of helper.py, up to the end of wait_for_tasks.
NextTask ==
    \/ ServerStep
    \/ WaitForTasksCall
    \/ CallWaitForTask
    \/ TaskWaitForTasksEnds
    \/ WhileEnter
    \/ WhileExit
    \/ DoSleep
    \/ DoGet
    \/ RaiseForStatus
    \/ ReturnResponse
    \/ KeepPolling

SpecTask == InitWellFormed /\ [][NextTask]_vars

\* What the call of wait_for_tasks evaluates to at the caller: the list
\* after `return responses` (helper.py:59, resources/helper.py:95), None
\* when the function ended without a return statement (api.py:196).
ReturnValue ==
    IF pc \in {"returned", "synced"} THEN [kind |-> "list", list |-> responses]
    ELSE IF pc = "ended" THEN [kind |-> "None", list |-> << >>]
    ELSE [kind |-> "no value", list |-> << >>]

(* ------- one task that runs, then finishes; a generous timeout --------- *)

\* One spawned task, running when the wait starts; the polling interval is
\* much smaller than the timeout.
InitScenario ==
    /\ report = [keys |-> CALL_REPORT_KEYS, spawned_tasks |-> <<1>>]
    /\ frequency \in 1..MaxFrequency
    /\ timeout = ScenarioFactor * frequency
    /\ latency \in Latencies
    /\ srv = [t \in TaskIds |-> IF t = 1 THEN "running" ELSE "waiting"]
    /\ clock = 0
    /\ pc = "call"
    /\ exc = "none"
    /\ idx = 1
    /\ task_timeout = 0
    /\ response = None
    /\ responses = << >>
    /\ log = << >>
    /\ calls = 0
    /\ NoRepository
    /\ NoTestCase

\* The running task finishes.
ScenarioStep ==
    /\ srv[1] = "running"
    /\ srv' = [srv EXCEPT ![1] = "finished"]
    /\ UNCHANGED <<repo_vars, test_vars>>
    /\ UNCHANGED <<inputs, calls, clock, pc, exc, idx, task_timeout, response,
                   responses, log>>

NextScenario ==
    \/ ScenarioStep
    \/ WaitForTasksCall
    \/ CallWaitForTask
    \/ ReturnResponses
    \/ WhileEnter
    \/ WhileExit
    \/ DoSleep
    \/ DoGet
    \/ RaiseForStatus
    \/ ReturnResponse
    \/ KeepPolling

\* The task answers running to every query until it finishes.
SpecScenario == InitScenario /\ [][NextScenario]_vars

(* ------------- repeated calls, on tasks that do not move --------------- *)

\* The wait starts on tasks in any state.
InitStable ==
    /\ report \in Reports
    /\ timeout \in 0..MaxTimeout
    /\ frequency \in 1..MaxFrequency
    /\ latency \in Latencies
    /\ srv \in {f \in [TaskIds -> States] :
                  \A t \in TaskIds :
                     (\A i \in DOMAIN report.spawned_tasks :
                         report.spawned_tasks[i] # t) => f[t] = "waiting"}
    /\ clock = 0
    /\ pc = "call"
    /\ exc = "none"
    /\ idx = 1
    /\ task_timeout = 0
    /\ response = None
    /\ responses = << >>
    /\ log = << >>
    /\ calls = 0
    /\ NoRepository
    /\ NoTestCase

\* helper.py:48  the caller calls wait_for_tasks once more, with the same
\* report and arguments.
CallAgain ==
    /\ pc = "returned"
    /\ calls < MaxCalls
    /\ pc' = "call"
    /\ UNCHANGED <<repo_vars, test_vars>>
    /\ UNCHANGED <<inputs, calls, srv, clock, exc, idx, task_timeout,
                   response, responses, log>>

NextStable ==
    \/ WaitForTasksCall
    \/ CallWaitForTask
    \/ ReturnResponses
    \/ WhileEnter
    \/ WhileExit
    \/ DoSleep
    \/ DoGet
    \/ RaiseForStatus
    \/ ReturnResponse
    \/ KeepPolling
    \/ CallAgain

\* The server leaves the tasks alone while the client waits.
SpecStable == InitStable /\ [][NextStable]_vars

(* --------------------- api.py: the Repository class -------------------- *)

\* A key the dictionary does not hold.
Missing == "<missing>"

REPOSITORY_PATH == <<"/pulp/api/v2/repositories/">>

REPOSITORY_ID_PATH(repo_id) == <<"/pulp/api/v2/repositories/", repo_id, "/">>

\* The value under 'notes': kind tells a dictionary from None and from a
\* key that is not there; items are the (key, value) pairs of a dictionary.
Notes(items) == [kind |-> "dict", items |-> items]

NoNotes == [kind |-> Missing, items |-> {}]

NoneNotes == [kind |-> "None", items |-> {}]

\* d.update({key: value}) on the pairs of a dictionary.
SetItem(items, key, value) ==
    {p \in items : p[1] # key} \cup {<<key, value>>}

\* The keyword arguments given to the constructor and to the create
\* methods: nothing, an id, an id and notes, and notes=None.
Kwargs ==
    {[id |-> Missing, notes |-> NoNotes],
     [id |-> "repo1", notes |-> NoNotes],
     [id |-> "repo1", notes |-> Notes({<<"owner", "qe">>})],
     [id |-> Missing, notes |-> NoneNotes]}

\* dict.update(kwargs): the keys of kwargs replace those of d.
Update(d, kwargs) ==
    [id |-> IF kwargs.id # Missing THEN kwargs.id ELSE d.id,
     notes |-> IF kwargs.notes.kind # Missing THEN kwargs.notes ELSE d.notes]

\* The status of the server's response to a request.
Answers == {"200", "404"}

\* The arguments of update_repo that are None or an object.
Configs == {"None", "config"}

\* self.last_response = None
NoResponse == [req |-> 0, status |-> "None"]

\* The response to the request that was sent last.
ResponseTo(requests, status) == [req |-> Len(requests), status |-> status]

\* The entry of the history for a call that ended: how it ended, and the
\* number of requests made through the object up to then.
Call(method, outcome, requests) ==
    [method |-> method, outcome |-> outcome, sent |-> Len(requests)]

\* api.py:77-81  Repository(**kwargs)
InitRepository ==
    /\ data_keys \in {Update([id |-> Missing, notes |-> NoNotes], kwargs) :
                         kwargs \in Kwargs}
    /\ last_response = NoResponse
    /\ sent = << >>
    /\ history = << >>
    /\ NoWait
    /\ NoTestCase

\* api.py:83-95  create_repo(**kwargs)
create_repo ==
    /\ Len(history) < MaxRepoCalls
    /\ \E kwargs \in Kwargs, answer \in Answers :
         /\ data_keys' = Update(data_keys, kwargs)
         /\ sent' = Append(sent, [method |-> "POST", path |-> REPOSITORY_PATH,
                                  json |-> data_keys'])
         /\ last_response' = ResponseTo(sent', answer)
         /\ history' = Append(history, Call("create_repo", "returned", sent'))
    /\ UNCHANGED <<wait_vars, test_vars>>

\* api.py:100-102  the notes of an RPM repository
RpmNotes(d) ==
    LET notes == IF d.notes.kind = "dict" THEN d.notes ELSE Notes({})
    IN  [d EXCEPT !.notes = Notes(SetItem(notes.items, "_repo-type", "rpm-repo"))]

\* api.py:97-103  create_rpm_repo(**kwargs), which ends in create_repo
create_rpm_repo ==
    /\ Len(history) < MaxRepoCalls
    /\ \E kwargs \in Kwargs, answer \in Answers :
         /\ data_keys' = Update(RpmNotes(data_keys), kwargs)
         /\ sent' = Append(sent, [method |-> "POST", path |-> REPOSITORY_PATH,
                                  json |-> data_keys'])
         /\ last_response' = ResponseTo(sent', answer)
         /\ history' = Append(history, Call("create_rpm_repo", "returned", sent'))
    /\ UNCHANGED <<wait_vars, test_vars>>

\* Mutant of delete_repo: the response is not kept.
delete_repo_DropsResponse ==
    /\ Len(history) < MaxRepoCalls
    /\ IF data_keys.id = Missing
         THEN /\ history' = Append(history, Call("delete_repo", "KeyError", sent))
              /\ UNCHANGED <<sent, last_response>>
         ELSE \E answer \in Answers :
                /\ sent' = Append(sent,
                                  [method |-> "DELETE",
                                   path |-> REPOSITORY_ID_PATH(data_keys.id)])
                /\ last_response' = last_response
                /\ history' = Append(history,
                                     Call("delete_repo", "returned", sent'))
    /\ UNCHANGED <<data_keys, wait_vars, test_vars>>

\* api.py:105-115  delete_repo(): self.data_keys['id'] raises KeyError
\* when the object has no id.
delete_repo ==
    /\ Len(history) < MaxRepoCalls
    /\ IF data_keys.id = Missing
         THEN /\ history' = Append(history, Call("delete_repo", "KeyError", sent))
              /\ UNCHANGED <<sent, last_response>>
         ELSE \E answer \in Answers :
                /\ sent' = Append(sent,
                                  [method |-> "DELETE",
                                   path |-> REPOSITORY_ID_PATH(data_keys.id)])
                /\ last_response' = ResponseTo(sent', answer)
                /\ history' = Append(history,
                                     Call("delete_repo", "returned", sent'))
    /\ UNCHANGED <<data_keys, wait_vars, test_vars>>

\* api.py:117-125  get_repo()
get_repo ==
    /\ Len(history) < MaxRepoCalls
    /\ IF data_keys.id = Missing
         THEN /\ history' = Append(history, Call("get_repo", "KeyError", sent))
              /\ UNCHANGED <<sent, last_response>>
         ELSE \E answer \in Answers :
                /\ sent' = Append(sent,
                                  [method |-> "GET",
                                   path |-> REPOSITORY_ID_PATH(data_keys.id)])
                /\ last_response' = ResponseTo(sent', answer)
                /\ history' = Append(history,
                                     Call("get_repo", "returned", sent'))
    /\ UNCHANGED <<data_keys, wait_vars, test_vars>>

\* api.py:143-147  my_delta
MyDelta(importer_config, distributor_configs) ==
    {<<"delta", "delta">>}
        \cup (IF importer_config # "None"
                THEN {<<"importer_config", importer_config>>} ELSE {})
        \cup (IF distributor_configs # "None"
                THEN {<<"distributor_configs", distributor_configs>>} ELSE {})

\* api.py:127-153  update_repo(delta, importer_config, distributor_configs)
update_repo ==
    /\ Len(history) < MaxRepoCalls
    /\ IF data_keys.id = Missing
         THEN /\ history' = Append(history, Call("update_repo", "KeyError", sent))
              /\ UNCHANGED <<sent, last_response>>
         ELSE \E importer_config \in Configs, distributor_configs \in Configs,
                 answer \in Answers :
                /\ sent' = Append(sent,
                                  [method |-> "PUT",
                                   path |-> REPOSITORY_ID_PATH(data_keys.id),
                                   json |-> MyDelta(importer_config,
                                                    distributor_configs)])
                /\ last_response' = ResponseTo(sent', answer)
                /\ history' = Append(history,
                                     Call("update_repo", "returned", sent'))
    /\ UNCHANGED <<data_keys, wait_vars, test_vars>>

NextRepository ==
    \/ create_repo
    \/ create_rpm_repo
    \/ delete_repo
    \/ get_repo
    \/ update_repo

\* Any sequence of calls of the methods of one Repository object.
SpecRepository == InitRepository /\ [][NextRepository]_vars

(* ------------- test_sync_publish.py: the test case classes ------------- *)

\* The _href of the repositories the server can create.
Hrefs == 1..MaxHrefs

\* The classes derived from _BaseTestCase.
TestCases ==
    {"CreateTestCase", "SyncUpdateValidFeedTestCase",
     "SyncInvalidFeedBranchTestCase", "SyncCopyValidFeedTestCase"}

\* The number of bodies setUpClass creates a repository from.
Bodies(cls) == IF cls = "SyncUpdateValidFeedTestCase" THEN 1 ELSE 2

\* A tuple of the attributes of repositories; each stands for its _href.
Tuple(items) == [kind |-> "tuple", items |-> items, todo |-> 0]

\* A generator expression (create_repository(cfg, body) for body in
\* bodies) that has todo bodies left: nothing is created before it is
\* iterated, and what it has yielded is gone.
Generator(todo) == [kind |-> "generator", items |-> << >>, todo |-> todo]

\* Whether setUpClass of the class assigns a generator to cls.attrs_iter.
AssignsGenerator(cls) == cls = "SyncInvalidFeedBranchTestCase"

\* The set of the elements of a sequence.
Range(l) == {l[i] : i \in DOMAIN l}

InitTestCase ==
    /\ tclass \in TestCases
    /\ tpc = "setUpClass"
    /\ attrs_iter = << >>
    /\ pos = 0
    /\ created = << >>
    /\ deleted = << >>
    /\ resources = {}
    /\ NoWait
    /\ NoRepository

\* test_sync_publish.py:43-46  _BaseTestCase.setUpClass, called through
\* super() as the first step of setUpClass of every class.
BaseSetUpClass ==
    /\ tpc = "setUpClass"
    /\ attrs_iter' = Tuple(<< >>)
    /\ tpc' = IF AssignsGenerator(tclass) THEN "assign" ELSE "create"
    /\ UNCHANGED <<resources, tclass, pos, created, deleted, wait_vars, repo_vars>>

\* test_sync_publish.py:136-138, 186, 324-325  create_repository(cls.cfg,
\* body) for the next body, while the tuple is being built.
CreateRepository ==
    /\ tpc = "create"
    /\ Len(created) < Bodies(tclass)
    /\ \E href \in Hrefs \ Range(created) : created' = Append(created, href)
    /\ UNCHANGED <<resources, tclass, tpc, attrs_iter, pos, deleted, wait_vars, repo_vars>>

\* test_sync_publish.py:136, 186, 324  cls.attrs_iter = <the tuple>
AssignTuple ==
    /\ tpc = "create"
    /\ Len(created) = Bodies(tclass)
    /\ attrs_iter' = Tuple(created)
    /\ tpc' = "use"
    /\ UNCHANGED <<resources, tclass, pos, created, deleted, wait_vars, repo_vars>>

\* test_sync_publish.py:247  cls.attrs_iter = (create_repository(cls.cfg,
\* body) for body in bodies)
AssignGenerator ==
    /\ tpc = "assign"
    /\ attrs_iter' = Generator(Bodies(tclass))
    /\ tpc' = "use"
    /\ UNCHANGED <<resources, tclass, pos, created, deleted, wait_vars, repo_vars>>

\* test_sync_publish.py:139-141, 189-201, 326-348  the rest of setUpClass
\* reads the tuple: by index, or in a for loop.
ReadTuple ==
    /\ tpc = "use"
    /\ attrs_iter.kind = "tuple"
    /\ tpc' = "tests"
    /\ UNCHANGED <<resources, tclass, attrs_iter, pos, created, deleted, wait_vars,
                   repo_vars>>

\* test_sync_publish.py:249-253  tuple(sync_repository(...) for attr_iter
\* in cls.attrs_iter): each step of the loop takes the next element of the
\* generator, which creates a repository; the loop ends when the generator
\* has no body left.
SyncEach ==
    /\ tpc = "use"
    /\ attrs_iter.kind = "generator"
    /\ IF attrs_iter.todo > 0
         THEN /\ \E href \in Hrefs \ Range(created) :
                    created' = Append(created, href)
              /\ attrs_iter' = Generator(attrs_iter.todo - 1)
              /\ tpc' = tpc
         ELSE /\ tpc' = "tests"
              /\ UNCHANGED <<attrs_iter, created>>
    /\ UNCHANGED <<resources, tclass, pos, deleted, wait_vars, repo_vars>>

\* test_sync_publish.py:49-51  the tests have run; tearDownClass starts
\* its for loop over cls.attrs_iter.
TearDownClass ==
    /\ tpc = "tests"
    /\ tpc' = "tearDownClass"
    /\ pos' = 1
    /\ UNCHANGED <<resources, tclass, attrs_iter, created, deleted, wait_vars, repo_vars>>

\* test_sync_publish.py:51-52  for attrs in cls.attrs_iter:
\* delete(cls.cfg, attrs['_href']). A tuple gives its elements in order; a
\* generator gives what it has not yielded yet, creating it first.
DeleteEach ==
    /\ tpc = "tearDownClass"
    /\ IF attrs_iter.kind = "tuple" /\ pos <= Len(attrs_iter.items)
         THEN /\ deleted' = Append(deleted, attrs_iter.items[pos])
              /\ pos' = pos + 1
              /\ UNCHANGED <<tpc, attrs_iter, created>>
         ELSE IF attrs_iter.kind = "generator" /\ attrs_iter.todo > 0
         THEN /\ \E href \in Hrefs \ Range(created) :
                    /\ created' = Append(created, href)
                    /\ deleted' = Append(deleted, href)
              /\ attrs_iter' = Generator(attrs_iter.todo - 1)
              /\ UNCHANGED <<tpc, pos>>
         ELSE /\ tpc' = "done"
              /\ UNCHANGED <<attrs_iter, pos, created, deleted>>
    /\ UNCHANGED <<resources, tclass, wait_vars, repo_vars>>

NextTestCase ==
    \/ BaseSetUpClass
    \/ CreateRepository
    \/ AssignTuple
    \/ AssignGenerator
    \/ ReadTuple
    \/ SyncEach
    \/ TearDownClass
    \/ DeleteEach

\* setUpClass, the tests and tearDownClass of one class.
SpecTestCase == InitTestCase /\ [][NextTestCase]_vars

(* --------- test_remove_unit.py: the _RemoveMissingTestCase classes ------ *)

\* test_remove_unit.py:245-250, 266-271  the classes whose setUpClass is
\* that of _RemoveMissingTestCase.
RemoveMissingTestCases == {"RemoveMissingTrueTestCase", "RemoveMissingFalseTestCase"}

\* test_remove_unit.py:161-239  the requests and polls of setUpClass after
\* super().setUpClass(), in the order of the statements.
SetUpSteps ==
    <<"create repository", "sync", "poll tasks", "distribute", "publish",
      "create repository", "sync", "poll tasks", "search units",
      "choose unit", "unassociate", "poll tasks", "publish", "sync",
      "poll tasks", "search units">>

\* A step of setUpClass returns, or it raises: api.Client with
\* safe_handler raises for an HTTP error status, poll_spawned_tasks for a
\* task that failed or timed out, random.choice for an empty list.
StepOutcomes == {"returns", "raises"}

InitRemoveMissing ==
    /\ tclass \in RemoveMissingTestCases
    /\ tpc = "setUpClass"
    /\ attrs_iter = << >>
    /\ pos = 0
    /\ created = << >>
    /\ deleted = << >>
    /\ resources = {}
    /\ NoWait
    /\ NoRepository

\* test_remove_unit.py:67-72 and 155-158  super().setUpClass():
\* cls.resources = set(); then the dictionaries and the client.
RemoveMissingSetUpClass ==
    /\ tpc = "setUpClass"
    /\ resources' = {}
    /\ pos' = 1
    /\ tpc' = "steps"
    /\ UNCHANGED <<tclass, attrs_iter, created, deleted, wait_vars, repo_vars>>

\* test_remove_unit.py:163 and 193
\* repos.append(client.post(REPOSITORY_PATH, bodies[i]).json()): the server
\* has created the repository, whose _href is kept in the local list only.
PostRepository ==
    /\ tpc = "steps"
    /\ pos <= Len(SetUpSteps)
    /\ SetUpSteps[pos] = "create repository"
    /\ \E href \in Hrefs \ Range(created) : created' = Append(created, href)
    /\ pos' = pos + 1
    /\ UNCHANGED <<tclass, tpc, attrs_iter, deleted, resources, wait_vars,
                   repo_vars>>

\* test_remove_unit.py:164-239  any other step returns.
LaterStep ==
    /\ tpc = "steps"
    /\ pos <= Len(SetUpSteps)
    /\ SetUpSteps[pos] # "create repository"
    /\ pos' = pos + 1
    /\ UNCHANGED <<tclass, tpc, attrs_iter, created, deleted, resources,
                   wait_vars, repo_vars>>

\* test_remove_unit.py:163-239  a step raises: setUpClass has no try
\* statement, so the exception leaves it there.
StepRaises ==
    /\ tpc = "steps"
    /\ pos <= Len(SetUpSteps)
    /\ "raises" \in StepOutcomes
    /\ tpc' = "raised"
    /\ UNCHANGED <<tclass, attrs_iter, pos, created, deleted, resources,
                   wait_vars, repo_vars>>

\* test_remove_unit.py:241-242  for repo in repos:
\* cls.resources.add(repo['_href']), the last statement of setUpClass.
RegisterResources ==
    /\ tpc = "steps"
    /\ pos > Len(SetUpSteps)
    /\ resources' = resources \cup Range(created)
    /\ tpc' = "tests"
    /\ UNCHANGED <<tclass, attrs_iter, pos, created, deleted, wait_vars,
                   repo_vars>>

\* test_remove_unit.py:74-77  the tests have run; tearDownClass makes its
\* client and starts the for loop over cls.resources.
RemoveMissingTearDownClass ==
    /\ tpc = "tests"
    /\ tpc' = "tearDownClass"
    /\ UNCHANGED <<tclass, attrs_iter, pos, created, deleted, resources,
                   wait_vars, repo_vars>>

\* test_remove_unit.py:77-78  for resource in cls.resources:
\* client.delete(resource), in the order the set gives its elements.
DeleteResource ==
    /\ tpc = "tearDownClass"
    /\ IF resources \subseteq Range(deleted)
         THEN tpc' = "done" /\ deleted' = deleted
         ELSE /\ \E resource \in resources \ Range(deleted) :
                    deleted' = Append(deleted, resource)
              /\ tpc' = tpc
    /\ UNCHANGED <<tclass, attrs_iter, pos, created, resources, wait_vars,
                   repo_vars>>

NextRemoveMissing ==
    \/ RemoveMissingSetUpClass
    \/ PostRepository
    \/ LaterStep
    \/ StepRaises
    \/ RegisterResources
    \/ RemoveMissingTearDownClass
    \/ DeleteResource

\* setUpClass, the tests and tearDownClass of one of the classes.
SpecRemoveMissing == InitRemoveMissing /\ [][NextRemoveMissing]_vars

(* ------------------------------- claims -------------------------------- *)

\* The spawned tasks of the report, and their number.
Tasks == report.spawned_tasks

N == Len(Tasks)

Last(l) == l[Len(l)]

\* wait_for_tasks has returned its list to the caller.
Returned == pc \in {"returned", "synced"}

\* r is a response that reports a finished task.
IsTerminalResponse(r) ==
    r # None /\ r.ok /\ r.state \in TASK_SUCCESS_STATES \cup TASK_ERROR_STATES

\* C1: for a report with N spawned tasks and no failed status query,
\* wait_for_tasks returns exactly N results, and result i is the outcome of
\* polling spawned task i: nothing, or the answer to a query for task i
\* that reports the final state the server holds for that task.
C1_ResultsInOrder ==
    Returned =>
        /\ Len(responses) = N
        /\ \A i \in 1..N :
             \/ responses[i] = None
             \/ /\ responses[i].ok
                /\ responses[i].task_id = Tasks[i]
                /\ responses[i].state = srv[Tasks[i]]

C1_Witness ==
    /\ pc = "returned"
    /\ Tasks = <<2, 1>>
    /\ responses[1].state = "error"
    /\ responses[2].state = "finished"

\* The call is within the contract: a well-formed report, and a positive
\* interval smaller than the timeout.
InContract == report.keys = CALL_REPORT_KEYS /\ frequency < timeout

\* C2: a task that answers every query with a running state (here: it is
\* still in its first state, 'waiting', when its polling has ended) gets
\* an explicit timeout outcome, not the absent value None.
C2_TimeoutIsExplicit ==
    InContract =>
        \A i \in 1..Len(responses) :
            srv[Tasks[i]] = "waiting" => responses[i] # None

\* C3: when wait_for_tasks has returned, every spawned task has been seen
\* in a terminal state, and the dependent request (the sync) is not issued
\* while a task of the report is running, suspended or waiting.
C3_AllTerminalBeforeSync ==
    InContract =>
        /\ Returned =>
              \A i \in 1..Len(responses) : IsTerminalResponse(responses[i])
        /\ pc = "synced" =>
              \A i \in 1..N : srv[Tasks[i]] \notin TASK_RUNNING_STATES

\* C4: the first answer that reports 'error' or 'timed out' is returned at
\* once as the task's result (no sleep or query in between), no later query
\* is made for a task that has its result, and such a result differs from
\* None, the outcome of the client's own deadline.
C4_ErrorReturnedAtOnce ==
    /\ [](\A i \in 1..Len(responses) :
            responses[i].state \in TASK_ERROR_STATES =>
                responses[i] # None /\ responses[i].task_id = Tasks[i])
    /\ [][(pc = "check" /\ pc' # "check"
              /\ response.state \in TASK_ERROR_STATES) =>
            (/\ pc' = "for"
             /\ responses' = Append(responses, response)
             /\ log' = log
             /\ Last(log) = Get(response.task_id))]_vars
    /\ [][\A i \in 1..Len(responses) :
            responses[i].state \in TASK_ERROR_STATES =>
                Count(log', Get(Tasks[i])) = Count(log, Get(Tasks[i]))]_vars

C4_Witness ==
    /\ pc = "returned"
    /\ N = 2
    /\ responses[1].state = "timed out"
    /\ responses[2] = None

\* C5: on a report whose spawned_tasks is empty, wait_for_tasks returns the
\* empty list, and makes no request and no sleep.
C5_EmptyReport ==
    (HasSpawnedTasks(report) /\ N = 0) =>
        /\ log = << >> \/ (pc = "synced" /\ log = <<Post("sync")>>)
        /\ responses = << >>
        /\ clock = 0
        /\ pc \in {"call", "for", "returned", "synced"}

C5_Witness ==
    /\ HasSpawnedTasks(report)
    /\ N = 0
    /\ pc = "returned"
    /\ responses = << >>

\* C6: when the first query for a task reports 'finished', that answer is
\* returned at once as the task's result: one sleep and one query were made
\* for the task, whatever the timeout, and no query for it follows.
C6_FinishedReturnedAtOnce ==
    /\ [][(pc = "check" /\ pc' # "check"
              /\ response.state \in TASK_SUCCESS_STATES
              /\ Count(log, Get(response.task_id)) = 1) =>
            (/\ pc' = "for"
             /\ responses' = Append(responses, response)
             /\ log' = log
             /\ clock = (task_timeout - timeout) + frequency + latency)]_vars
    /\ [][\A i \in 1..Len(responses) :
            responses[i].state \in TASK_SUCCESS_STATES =>
                Count(log', Get(Tasks[i])) = Count(log, Get(Tasks[i]))]_vars

C6_Witness ==
    /\ pc = "returned"
    /\ N = 1
    /\ responses = <<Response(1, TRUE, "finished")>>
    /\ log = <<Sleep(frequency), Get(1)>>
    /\ clock < task_timeout

\* C7: a status query that reports a non-success HTTP status makes
\* wait_for_tasks raise at once: the failed response is the last request
\* made, and never reaches the state test or another loop iteration.
C7_HttpErrorPropagates ==
    /\ (response # None /\ ~response.ok) =>
          /\ pc \in {"raise_for_status", "raised"}
          /\ Last(log) = Get(response.task_id)
          /\ response.task_id = Tasks[idx]
          /\ Len(responses) = idx - 1
    /\ exc = "HTTPError" <=> (pc = "raised" /\ response # None)

C7_Witness ==
    /\ pc = "raised"
    /\ exc = "HTTPError"
    /\ N = 2
    /\ idx = 1
    /\ CountOp(log, "GET") = 1

\* C8: an answer whose state is outside the three known sets is never
\* treated as a running task: the loop goes round again only on an answer
\* that reports a running state.
C8_UnknownStateFailsFast ==
    (InContract /\ pc \in {"while", "sleep", "get"} /\ response # None) =>
        response.state \in TASK_RUNNING_STATES

\* C9: on a report without the 'error' key a protocol error is signalled
\* and no status query is made.
C9_MissingErrorKey ==
    ("error" \notin report.keys /\ N > 0) =>
        /\ CountOp(log, "GET") = 0
        /\ pc \in {"call", "raised"}

\* C10: only a report whose key set is exactly CALL_REPORT_KEYS gets past
\* the entry of wait_for_tasks; any other one is signalled as an error.
C10_ExactKeys ==
    pc \notin {"call", "raised"} => report.keys = CALL_REPORT_KEYS

\* r is an explicit outcome of the client's own deadline: a value that can
\* be inspected, unlike None. No step of the code produces one.
IsTimeoutOutcome(r) == r # None /\ r.state = "deadline passed"

\* C11: what wait_for_tasks returns is a complete sequence, one element per
\* spawned task and in their order, and every element is a terminal state
\* or an explicit timeout outcome.
C11_CompleteSequence ==
    (InContract /\ Returned) =>
        /\ Len(responses) = N
        /\ \A i \in 1..N :
             IsTerminalResponse(responses[i]) \/ IsTimeoutOutcome(responses[i])

\* The time the client has spent on the sleeps and queries of l.
RECURSIVE TimeOf(_)
TimeOf(l) ==
    IF l = << >> THEN 0
    ELSE TimeOf(Tail(l))
            + (CASE Head(l).op = "sleep" -> Head(l).arg
                 [] Head(l).op = "GET" -> latency
                 [] OTHER -> 0)

\* The entries of l up to the last query for a task outside ids: what the
\* client did for the tasks before those of ids.
RECURSIVE Earlier(_, _)
Earlier(l, ids) ==
    IF l = << >> THEN << >>
    ELSE IF Last(l).op = "GET" /\ Last(l).arg \notin ids
         THEN l
         ELSE Earlier(SubSeq(l, 1, Len(l) - 1), ids)

\* The client is inside _wait_for_task.
Polling == pc \in {"while", "sleep", "get", "raise_for_status", "check"}

\* C12: while task idx is polled, its deadline is the time at which its own
\* polling started (the time all the sleeps and queries for the earlier
\* tasks took) plus timeout.
C12_DeadlinePerTask ==
    Polling =>
        task_timeout = TimeOf(Earlier(log, {Tasks[i] : i \in idx..N})) + timeout

C12_Witness ==
    /\ pc = "sleep"
    /\ idx = 2
    /\ timeout > 0
    /\ clock > timeout
    /\ task_timeout = clock + timeout

\* Whether the queries of the log from entry k on follow the order of the
\* report, the latest query before them being for the task at position i:
\* each is for a spawned task at that position or a later one, and at most
\* at the position of the result that is due next.
RECURSIVE InReportOrder(_, _)
InReportOrder(k, i) ==
    IF k > Len(log) THEN TRUE
    ELSE IF log[k].op # "GET" THEN InReportOrder(k + 1, i)
    ELSE \E j \in i..N :
            /\ j <= Len(responses) + 1
            /\ Tasks[j] = log[k].arg
            /\ InReportOrder(k + 1, j)

\* C13: the queries follow the order of the report. When a query has been
\* made it is for the task whose result is the next one due, so it comes
\* after the results of all the tasks before it; and in the queries made up
\* to then, no query for an earlier task follows a query for a later one.
C13_OneTaskAtATime ==
    pc = "raise_for_status" =>
        /\ Last(log) = Get(Tasks[Len(responses) + 1])
        /\ InReportOrder(1, 1)

C13_Witness ==
    /\ pc = "raise_for_status"
    /\ Tasks = <<2, 1>>
    /\ Len(responses) = 1
    /\ Count(log, Get(2)) = 2
    /\ Count(log, Get(1)) = 2
    /\ log[2] = Get(2)
    /\ Last(log) = Get(1)

\* C15: a task that ended in an error state is a result, not a failure:
\* wait_for_tasks raises only for a report without spawned_tasks or for a
\* failed status query, and when it returns with such a result in its list,
\* every spawned task has been polled and has its result.
C15_TaskErrorIsData ==
    /\ pc = "raised" => (response = None \/ ~response.ok)
    /\ exc \in {"none", "KeyError", "HTTPError"}
    /\ (pc = "for" /\ responses # << >>
          /\ Last(responses).state \in TASK_ERROR_STATES) =>
            /\ exc = "none"
            /\ idx = Len(responses) + 1
            /\ idx <= N => ENABLED CallWaitForTask
    /\ (Returned /\ \E i \in 1..Len(responses) :
                       responses[i].state \in TASK_ERROR_STATES) =>
            /\ Len(responses) = N
            /\ \A j \in 1..N : Count(log, Get(Tasks[j])) >= 1

C15_Witness ==
    /\ pc = "returned"
    /\ Tasks = <<1, 2>>
    /\ responses[1].state = "error"
    /\ responses[2].state = "finished"
    /\ exc = "none"

\* C20: a response the poller returns reports a state of the success or the
\* error set, and an answer that reports running, suspended or waiting is
\* never a result: the client holds it only inside the polling loop.
C20_NoRunningSnapshot ==
    /\ \A i \in 1..Len(responses) :
         responses[i] # None =>
            /\ responses[i].ok
            /\ responses[i].state \in TASK_SUCCESS_STATES \cup TASK_ERROR_STATES
    /\ response.state \in TASK_RUNNING_STATES =>
         /\ Polling
         /\ Len(responses) = idx - 1
    /\ (pc = "while" /\ response # None) =>
         response.state \notin TASK_SUCCESS_STATES \cup TASK_ERROR_STATES

C20_Witness ==
    /\ pc = "returned"
    /\ N = 1
    /\ responses[1].state = "finished"
    /\ CountOp(log, "GET") = 3

\* Every spawned task is in a state of the success or the error set.
AllTerminal ==
    \A i \in 1..N : srv[Tasks[i]] \in TASK_SUCCESS_STATES \cup TASK_ERROR_STATES

\* C14 (under SpecStable, where a task that is terminal was terminal when
\* its polling started): on tasks that are terminal already the poller
\* returns without sleeping, its first query comes before its first sleep.
C14_NoSleepForTerminalTask ==
    (InContract /\ AllTerminal) => CountOp(log, "sleep") = 0

\* C16 (under SpecStable): on a report whose tasks are all terminal, every
\* call of wait_for_tasks returns the same list, the terminal state of each
\* task in the order of the report, and makes the same requests: one query
\* per task.
C16_Idempotent ==
    (AllTerminal /\ HasSpawnedTasks(report) /\ pc \in {"returned", "call"}) =>
        /\ calls > 0 =>
             responses = [i \in 1..N |-> Response(Tasks[i], TRUE, srv[Tasks[i]])]
        /\ CountOp(log, "GET") = calls * N
        /\ CountOp(log, "sleep") = calls * N
        /\ exc = "none"

C16_Witness ==
    /\ AllTerminal
    /\ pc = "returned"
    /\ calls = 2
    /\ Tasks = <<2, 1>>
    /\ responses = <<Response(2, TRUE, "error"), Response(1, TRUE, "finished")>>

\* C17 (under SpecScenario, one task that answers running until it answers
\* finished, the timeout ScenarioFactor polling intervals): a wait that
\* returns after three status queries got running, running, finished; it
\* returns the one-element list of the finished answer, after three sleeps
\* and so at least two polling intervals, before the deadline; and after a
\* finished answer no further query is made.
C17_RunningRunningFinished ==
    /\ (Returned /\ CountOp(log, "GET") = 3) =>
          /\ responses = <<Response(1, TRUE, "finished")>>
          /\ CountOp(log, "sleep") = 3
          /\ clock >= 2 * frequency
          /\ clock < task_timeout
    /\ (response # None /\ response.state = "finished") =>
          pc \in {"raise_for_status", "check"}
    /\ (Returned /\ responses # << >> /\ responses[1] # None) =>
          /\ responses[1].state = "finished"
          /\ Last(log) = Get(1)

C17_Witness ==
    /\ Returned
    /\ CountOp(log, "GET") = 3
    /\ responses = <<Response(1, TRUE, "finished")>>
    /\ srv[1] = "finished"
    /\ clock = 3 * (frequency + latency)

\* The calls of the Repository object that returned.
ReturnedCalls == {k \in 1..Len(history) : history[k].outcome = "returned"}

\* The number of requests the k-th call made.
RequestsOf(k) == history[k].sent - (IF k = 1 THEN 0 ELSE history[k - 1].sent)

\* The HTTP method behind each method of Repository.
HttpMethod(method) ==
    CASE method \in {"create_repo", "create_rpm_repo"} -> "POST"
      [] method = "delete_repo" -> "DELETE"
      [] method = "get_repo" -> "GET"
      [] method = "update_repo" -> "PUT"

\* C18, as stated (under SpecRepository): every call makes exactly one
\* request, after a call that returned last_response is the response to the
\* request of that call, and last_response is None only before the first
\* call.
C18_LastResponse ==
    /\ \A k \in 1..Len(history) : RequestsOf(k) = 1
    /\ (history # << >> /\ Last(history).outcome = "returned") =>
          last_response.req = Len(sent)
    /\ last_response = NoResponse => history = << >>

\* C18, amended (under SpecRepository): every call that returns has made
\* exactly one request, with the HTTP method of the call; last_response is
\* the response to the request of the latest call that returned, and it is
\* None exactly as long as no call has returned. A call that raises has made
\* no request.
C18_LastResponseOfReturnedCalls ==
    /\ \A k \in ReturnedCalls :
          /\ RequestsOf(k) = 1
          /\ sent[history[k].sent].method = HttpMethod(history[k].method)
    /\ \A k \in 1..Len(history) \ ReturnedCalls : RequestsOf(k) = 0
    /\ (history # << >> /\ Last(history).outcome = "returned") =>
          last_response.req = Len(sent)
    /\ last_response = NoResponse <=> ReturnedCalls = {}
    /\ \A k \in ReturnedCalls :
          (\A j \in ReturnedCalls : j <= k) => last_response.req = history[k].sent

C18_Witness ==
    /\ Len(history) = 3
    /\ history[1].method = "create_rpm_repo" /\ history[1].outcome = "returned"
    /\ history[2].method = "update_repo" /\ history[2].outcome = "returned"
    /\ history[3].method = "delete_repo" /\ history[3].outcome = "returned"
    /\ last_response = [req |-> 3, status |-> "200"]
    /\ sent[3].method = "DELETE"

\* C19 (under SpecTestCase): when tearDownClass has ended, a delete has
\* been issued for the _href of every repository that setUpClass created.
C19_TearDownDeletesAll ==
    tpc = "done" => Range(created) \subseteq Range(deleted)

\* A step of the wait: the client moves on in wait_for_tasks.
WaitStep == pc' # pc /\ pc \notin {"returned", "synced"}

\* C21 (under SpecWellFormed): the wait only reads. A step of the wait
\* leaves the state of every task on the server as it is, and what it adds
\* to the log is one sleep, or one GET for the task_id of the task whose
\* result is due next (the id the status URL is built from).
C21_WaitOnlyReads ==
    [][WaitStep =>
          /\ srv' = srv
          /\ log' # log =>
               /\ log' = Append(log, Last(log'))
               /\ Last(log') \in {Sleep(frequency), Get(Tasks[Len(responses) + 1])}
      ]_vars

C21_Witness ==
    /\ pc = "returned"
    /\ Tasks = <<2, 1>>
    /\ CountOp(log, "GET") = 3
    /\ srv[1] = "error"
    /\ srv[2] = "finished"

\* C22 (under SpecWellFormed): every iteration fetches the state anew. The
\* response a query yields is the server's answer for the task the loop is
\* at, taken at that query; the state that is classified is the state of
\* that response, which belongs to the latest query of the log; and a
\* result that is collected from a response is that very response.
C22_FreshState ==
    [][/\ (pc = "get" /\ pc' = "raise_for_status") =>
            /\ Last(log') = Get(Tasks[idx])
            /\ response' \in {Response(Tasks[idx], TRUE, srv[Tasks[idx]]),
                              Response(Tasks[idx], FALSE, "None")}
       /\ pc \in {"raise_for_status", "check"} =>
            /\ Last(log) = Get(response.task_id)
            /\ response.task_id = Tasks[idx]
       /\ (pc = "raise_for_status" /\ WaitStep) => response' = response
       /\ (pc = "check" /\ WaitStep) =>
            /\ pc' = "for" <=> IsFinished(response.state)
            /\ pc' = "for" => responses' = Append(responses, response)
            /\ pc' # "for" => responses' = responses
      ]_vars

C22_Witness ==
    /\ pc = "check"
    /\ Tasks = <<1>>
    /\ CountOp(log, "GET") = 2
    /\ response = Response(1, TRUE, "finished")

\* C23 (under SpecFair): wait_for_tasks terminates, by a return or by an
\* exception, for every call report and whatever the server does with the
\* tasks.
C23_Terminates == <>(pc \in {"returned", "raised"})

\* A wait that returned although its only task never left a running state.
C23_Witness ==
    /\ pc = "returned"
    /\ Tasks = <<1>>
    /\ srv[1] \in TASK_RUNNING_STATES
    /\ responses = <<None>>
    /\ CountOp(log, "GET") >= 2

\* C24 (under SpecWellFormed): the polling interval is fixed. Every query
\* is preceded by exactly one sleep, of frequency seconds, and before that
\* sleep comes the query before (or nothing): between two consecutive
\* queries there is one sleep of the configured interval, however many
\* queries a task has had.
C24_FixedInterval ==
    pc = "raise_for_status" =>
        /\ Len(log) >= 2
        /\ Last(log).op = "GET"
        /\ log[Len(log) - 1] = Sleep(frequency)
        /\ Len(log) >= 3 => log[Len(log) - 2].op = "GET"

\* The third query for one task has been made, two queries after the first.
C24_Witness ==
    /\ pc = "raise_for_status"
    /\ Tasks = <<1>>
    /\ frequency = 1
    /\ log = <<Sleep(1), Get(1), Sleep(1), Get(1), Sleep(1), Get(1)>>

\* C25 (under SpecWellFormed): in every copy of the tables the three
\* classes are the stated sets and pairwise disjoint, and the poller ends
\* the wait for a task exactly when the state it was answered is in
\* Success or Error: at the test of the state one of "return the response"
\* and "poll again" is possible, never both.
C25_StateClasses ==
    /\ \A T \in StateTables :
          /\ T.TASK_RUNNING_STATES = {"running", "suspended", "waiting"}
          /\ T.TASK_SUCCESS_STATES = {"finished"}
          /\ T.TASK_ERROR_STATES = {"error", "timed out"}
          /\ T.TASK_RUNNING_STATES \cap T.TASK_SUCCESS_STATES = {}
          /\ T.TASK_RUNNING_STATES \cap T.TASK_ERROR_STATES = {}
          /\ T.TASK_SUCCESS_STATES \cap T.TASK_ERROR_STATES = {}
    /\ pc = "check" =>
          \A T \in StateTables :
             /\ ENABLED ReturnResponse
                  <=> response.state \in T.TASK_SUCCESS_STATES \cup T.TASK_ERROR_STATES
             /\ ENABLED KeepPolling
                  <=> response.state \notin T.TASK_SUCCESS_STATES \cup T.TASK_ERROR_STATES

\* The state of an error class is being classified.
C25_Witness ==
    /\ pc = "check"
    /\ response.state = "timed out"
    /\ ENABLED ReturnResponse
    /\ ~ ENABLED KeepPolling

\* C26 (under SpecRepository): whatever keyword arguments the constructor
\* and create_rpm_repo were given, the body that create_rpm_repo posts has
\* notes['_repo-type'] = 'rpm-repo', and when it is the first call on the
\* object the notes given to the constructor are in the body as well.
C26_RpmRepoType ==
    [][(/\ Len(history') = Len(history) + 1
        /\ Last(history').method = "create_rpm_repo") =>
          /\ Last(sent').method = "POST"
          /\ Last(sent').json.notes.kind = "dict"
          /\ <<"_repo-type", "rpm-repo">> \in Last(sent').json.notes.items
          /\ (history = << >> /\ data_keys.notes.kind = "dict") =>
                data_keys.notes.items \subseteq Last(sent').json.notes.items
      ]_vars

\* C27 (under SpecTask): the copy of the wait in api.py is equivalent to
\* the two in the helper modules: it queries the same URL for a task, and
\* when Task.wait_for_tasks has ended the caller holds what the helpers'
\* `return responses` hands back, the list of the per-task results.
C27_CopiesEquivalent ==
    /\ \A t \in TaskIds : POLL_TASK_PATH(t) = TaskUrl(t)
    /\ pc \in {"returned", "synced", "ended"} =>
          ReturnValue = [kind |-> "list", list |-> responses]

\* C28 (under SpecWellFormed): the deadline is compared before the sleep
\* only. A query is issued at most one interval after the task's deadline
\* and is answered at most the query's duration later; an answer with a
\* terminal state is collected as the task's result whatever the clock
\* says by then.
C28_LateTerminalAnswer ==
    [][/\ (pc = "get" /\ WaitStep) =>
            /\ clock <= task_timeout + frequency
            /\ clock' <= task_timeout + frequency + latency
       /\ (pc = "check" /\ WaitStep /\ IsFinished(response.state)) =>
            /\ pc' = "for"
            /\ responses' = Append(responses, response)
      ]_vars

\* The only query of a task was issued a full interval after the deadline,
\* took its time, and its terminal answer is the task's result.
C28_Witness ==
    /\ pc = "for"
    /\ Len(responses) = 1
    /\ CountOp(log, "GET") = 1
    /\ latency = 1
    /\ clock = task_timeout + frequency + latency
    /\ responses[1].ok
    /\ responses[1].state \in TASK_SUCCESS_STATES \cup TASK_ERROR_STATES

C30_CreatedAreRegistered ==
    tpc \in {"tests", "raised"} => Range(created) \subseteq resources

\* C31 (under SpecWellFormed): when the clock moves in the sleeps only
\* (status queries take no time), a task that no query found in a terminal
\* state, and whose wait therefore ended as a timeout, has been queried
\* exactly timeout \div frequency + 1 times; and a call of wait_for_tasks
\* that has returned made at most N * (timeout \div frequency + 1) queries.
C31_QueryCount ==
    latency = 0 =>
        /\ (pc = "for" /\ Len(responses) >= 1 /\ Last(responses) = None) =>
              Count(log, Get(Tasks[Len(responses)])) = timeout \div frequency + 1
        /\ pc = "returned" =>
              CountOp(log, "GET") <= N * (timeout \div frequency + 1)

\* Timeout 2 and interval 1: the task stayed running and was queried three
\* times before the wait gave up.
C31_Witness ==
    /\ pc = "for"
    /\ latency = 0
    /\ timeout = 2
    /\ frequency = 1
    /\ Tasks = <<1>>
    /\ srv[1] \in TASK_RUNNING_STATES
    /\ responses = <<None>>
    /\ log = <<Sleep(1), Get(1), Sleep(1), Get(1), Sleep(1), Get(1)>>

====
